---------------------------- MODULE Spec2Model ----------------------------
(***************************************************************************)
(* Model of the Alkosto wait optimizer (src/index.ts).                     *)
(*                                                                         *)
(* run(inputs) dispatches on inputs.mode to runPurchaseRateMode or         *)
(* runWinnerTimestampsMode, or throws.  Each call is one action: the state *)
(* before it holds the input object, the state after it holds what the     *)
(* call produced (the returned Output or the thrown Error) together with   *)
(* the values of the function's local constants at the return statement.   *)
(*                                                                         *)
(* JavaScript numbers are modelled by exact rationals [n |-> _, d |-> _]   *)
(* in lowest terms with d > 0.  round(value, k) yields the integer number  *)
(* of 10^-k units, so a reported 6.25 is 625 and a probability 0.75 is     *)
(* 7500.  Strings that only carry prose (assumptions, rationale,           *)
(* decision_rule) are literals of the source and are left out, and so are  *)
(* interval_std_minutes and interval_cv, which need a square root: the     *)
(* model carries the variance and compares squares instead.                *)
(***************************************************************************)
EXTENDS Integers, Sequences, FiniteSets, TLC

VARIABLES inputs, pc, error, output, locals

vars == <<inputs, pc, error, output, locals>>

-----------------------------------------------------------------------------
(* Rational arithmetic standing for the arithmetic of JS numbers.          *)

Abs(x) == IF x < 0 THEN -x ELSE x

RECURSIVE Gcd(_, _)
Gcd(a, b) == IF b = 0 THEN a ELSE Gcd(b, a % b)

Rat(n, d) ==
    LET g == Gcd(Abs(n), Abs(d))
        s == IF d < 0 THEN -1 ELSE 1
    IN  [n |-> s * (n \div g), d |-> s * (d \div g)]

RInt(k) == [n |-> k, d |-> 1]

RAdd(a, b) ==
    LET g == Gcd(a.d, b.d)
    IN  Rat(a.n * (b.d \div g) + b.n * (a.d \div g), (a.d \div g) * b.d)

RNeg(a) == [n |-> -a.n, d |-> a.d]

RSub(a, b) == RAdd(a, RNeg(b))

RMul(a, b) ==
    LET g1 == Gcd(Abs(a.n), b.d)
        g2 == Gcd(Abs(b.n), a.d)
    IN  Rat((a.n \div g1) * (b.n \div g2), (a.d \div g2) * (b.d \div g1))

\* a / b for b # 0
RDiv(a, b) == RMul(a, Rat(b.d, b.n))

\* sign of x / y - u / v for y, v > 0, by comparing continued fractions, so
\* that no cross product is formed
RECURSIVE CmpFrac(_, _, _, _)
CmpFrac(x, y, u, v) ==
    LET qa == x \div y
        qb == u \div v
        ra == x % y
        rb == u % v
    IN  IF qa # qb THEN (IF qa < qb THEN -1 ELSE 1)
        ELSE IF ra = 0 /\ rb = 0 THEN 0
        ELSE IF ra = 0 THEN -1
        ELSE IF rb = 0 THEN 1
        ELSE CmpFrac(v, rb, y, ra)

RLt(a, b) == CmpFrac(a.n, a.d, b.n, b.d) < 0

RLe(a, b) == CmpFrac(a.n, a.d, b.n, b.d) <= 0

\* Math.max and Math.min
RMax(a, b) == IF RLt(a, b) THEN b ELSE a

RMin(a, b) == IF RLt(b, a) THEN b ELSE a

\* 10^decimals, for the two precisions the source uses (2 and 4)
Pow10(decimals) == IF decimals = 4 THEN 10000 ELSE 100

\* <<q, r>> with rest / den = q / 10^k + r / (den * 10^k), by long division
RECURSIVE LongDiv(_, _, _)
LongDiv(rest, den, k) ==
    IF k = 0 THEN <<0, rest>>
    ELSE LET prev == LongDiv(rest, den, k - 1)
         IN  <<10 * prev[1] + ((10 * prev[2]) \div den), (10 * prev[2]) % den>>

\* Math.round(value * 10^decimals): the nearest integer, halves going up
RoundTo(value, decimals) ==
    LET whole == value.n \div value.d
        frac == LongDiv(value.n % value.d, value.d, decimals)
    IN  whole * Pow10(decimals) + frac[1] + (IF 2 * frac[2] >= value.d THEN 1 ELSE 0)

clamp(value, low, high) == RMax(low, RMin(high, value))

round(value) == RoundTo(value, 2)

-----------------------------------------------------------------------------
(* Values of the optional fields of Inputs.  A field that is absent is     *)
(* Undefined, a field given as JSON null is Null, a number is Num(r).      *)
(* is_weekend_or_holiday is "true", "false" or (not a boolean)             *)
(* "undefined"; model is "global", "per_lane" or any other value.          *)

Undefined == [tag |-> "undefined", v |-> RInt(0)]

Null == [tag |-> "null", v |-> RInt(0)]

Num(r) == [tag |-> "number", v |-> r]

\* typeof x === "number"
IsNumber(x) == x.tag = "number"

\* x ?? fallback
OrDefault(x, fallback) == IF IsNumber(x) THEN x.v ELSE fallback

EPSILON == Rat(1, 1000000000)

\* Math.max(value, EPSILON), compared without forming value - EPSILON
MaxEpsilon(value) ==
    IF value.n <= value.d \div EPSILON.d THEN EPSILON ELSE value

-----------------------------------------------------------------------------
(* Helpers shared by both modes.                                           *)

\* variant: the two thresholds exchanged
thresholdFromDay_swapped(isWeekendOrHoliday) == IF isWeekendOrHoliday THEN 25 ELSE 50

thresholdFromDay(isWeekendOrHoliday) == IF isWeekendOrHoliday THEN 50 ELSE 25

uniformWaitStats(intervalMinutes) ==
    LET t == RMax(intervalMinutes, RInt(0))
    IN  [mean_interval_between_winners |-> round(t),
         expected_wait_to_next_winner |-> round(RMul(Rat(1, 2), t)),
         p50_wait_to_next_winner |-> round(RMul(Rat(1, 2), t)),
         p75_wait_to_next_winner |-> round(RMul(Rat(3, 4), t)),
         p90_wait_to_next_winner |-> round(RMul(Rat(9, 10), t))]

\* variant: the ratio returned without the clamp to [0, 1]
probabilityWithinUniform_unclamped(interval, wait) ==
    IF interval.n <= 0 THEN RInt(1) ELSE RDiv(wait, interval)

probabilityWithinUniform(interval, wait) ==
    IF interval.n <= 0 THEN RInt(1) ELSE clamp(RDiv(wait, interval), RInt(0), RInt(1))

\* the guard of withEconomics: FALSE is its early return
\* variant: > 0 demanded where the source rejects only < 0
EconomicsGuard_strict(expectedBonusValue, timeValuePerMinute) ==
    /\ IsNumber(expectedBonusValue) /\ expectedBonusValue.v.n > 0
    /\ IsNumber(timeValuePerMinute) /\ timeValuePerMinute.v.n > 0

EconomicsGuard(expectedBonusValue, timeValuePerMinute) ==
    ~ \/ ~IsNumber(expectedBonusValue)
      \/ expectedBonusValue.v.n < 0
      \/ ~IsNumber(timeValuePerMinute)
      \/ timeValuePerMinute.v.n < 0

\* withEconomics mutates its argument output; the model returns the object
\* as it is after the call.  optimalWait is output.recommendation's
\* optimal_wait_minutes, the rounded value, in hundredths.
withEconomics(out, expectedBonusValue, timeValuePerMinute, probabilityWithinWait, meanInterval, maxWait) ==
    IF ~EconomicsGuard(expectedBonusValue, timeValuePerMinute) THEN out
    ELSE LET wait == Rat(out.recommendation.optimal_wait_minutes, 100)
             expectedValue == RMul(probabilityWithinWait, expectedBonusValue.v)
             timeCost == RMul(wait, timeValuePerMinute.v)
             netValue == RSub(expectedValue, timeCost)
             valuePerMinute == RDiv(expectedBonusValue.v, MaxEpsilon(meanInterval))
             breakEvenWait ==
                 IF timeValuePerMinute.v.n = 0 THEN maxWait
                 ELSE clamp(RDiv(expectedBonusValue.v, timeValuePerMinute.v),
                            RInt(0), maxWait)
         IN  out @@ [economics |->
                 [expected_value_for_optimal_wait |-> round(expectedValue),
                  expected_time_cost_for_optimal_wait |-> round(timeCost),
                  net_expected_value_for_optimal_wait |-> round(netValue),
                  value_expected_per_minute |-> round(valuePerMinute),
                  break_even_wait_minutes |-> round(breakEvenWait)]]

\* What a call leaves behind: error is the message of the thrown Error or
\* "none"; out is the returned Output (NoOutput after a throw); loc holds the
\* callee's local constants.
NoOutput == [mode |-> "none"]

NoLocals == [mode |-> "none"]

Throw(message) == [error |-> message, out |-> NoOutput, loc |-> NoLocals]

Return(out, loc) == [error |-> "none", out |-> out, loc |-> loc]

-----------------------------------------------------------------------------
(* Mode A: runPurchaseRateMode.                                            *)

\* variant: the model assert placed before the day-flag assert
PurchaseRateAssert_modelFirst(in) ==
    IF in.model \notin {"global", "per_lane"}
    THEN "model invalido."
    ELSE IF in.is_weekend_or_holiday \notin {"true", "false"}
    THEN "is_weekend_or_holiday es obligatorio en mode=purchase_rate."
    ELSE IF ~(IsNumber(in.observed_purchases) /\ in.observed_purchases.v.n > 0)
    THEN "observed_purchases debe ser > 0."
    ELSE IF ~(IsNumber(in.observed_minutes) /\ in.observed_minutes.v.n > 0)
    THEN "observed_minutes debe ser > 0."
    ELSE IF ~(IsNumber(in.observed_lanes) /\ in.observed_lanes.v.n > 0)
    THEN "observed_lanes debe ser > 0."
    ELSE "none"

\* the five leading asserts, in order: the message of the first that fails
PurchaseRateAssert(in) ==
    IF in.is_weekend_or_holiday \notin {"true", "false"}
    THEN "is_weekend_or_holiday es obligatorio en mode=purchase_rate."
    ELSE IF in.model \notin {"global", "per_lane"}
    THEN "model invalido."
    ELSE IF ~(IsNumber(in.observed_purchases) /\ in.observed_purchases.v.n > 0)
    THEN "observed_purchases debe ser > 0."
    ELSE IF ~(IsNumber(in.observed_minutes) /\ in.observed_minutes.v.n > 0)
    THEN "observed_minutes debe ser > 0."
    ELSE IF ~(IsNumber(in.observed_lanes) /\ in.observed_lanes.v.n > 0)
    THEN "observed_lanes debe ser > 0."
    ELSE "none"

\* Math.max(inputs.max_wait_minutes ?? 30, 1)
MaxWaitOf(in) == RMax(OrDefault(in.max_wait_minutes, RInt(30)), RInt(1))

\* clamp(inputs.target_hit_probability ?? 0.75, 0.5, 0.99)
ProbabilityTargetOf(in) ==
    clamp(OrDefault(in.target_hit_probability, Rat(3, 4)), Rat(1, 2), Rat(99, 100))

\* clamp(inputs.confidence_buffer ?? 0.2, 0, 0.9)
ConfidenceBufferOf(in) ==
    clamp(OrDefault(in.confidence_buffer, Rat(1, 5)), RInt(0), Rat(9, 10))

\* variant: total_open_lanes / observed_lanes also when the total is smaller
LaneScaleOf_unguarded(in) ==
    IF in.model = "global" /\ IsNumber(in.total_open_lanes)
    THEN RDiv(in.total_open_lanes.v, in.observed_lanes.v)
    ELSE RInt(1)

LaneScaleOf(in) ==
    IF /\ in.model = "global"
       /\ IsNumber(in.total_open_lanes)
       /\ RLe(in.observed_lanes.v, in.total_open_lanes.v)
    THEN RDiv(in.total_open_lanes.v, in.observed_lanes.v)
    ELSE RInt(1)

\* waitForTarget and its clamp
OptimalWaitA(meanInterval, probabilityTarget, maxWait) ==
    clamp(RMul(meanInterval, probabilityTarget), RInt(1), maxWait)

runPurchaseRateMode(in) ==
    IF PurchaseRateAssert(in) # "none" THEN Throw(PurchaseRateAssert(in))
    ELSE
    LET isWeekendOrHoliday == in.is_weekend_or_holiday = "true"
        maxWait == MaxWaitOf(in)
        confidenceBuffer == ConfidenceBufferOf(in)
        probabilityTarget == ProbabilityTargetOf(in)
        kThreshold == thresholdFromDay(isWeekendOrHoliday)
        lambdaObserved == RDiv(in.observed_purchases.v, in.observed_minutes.v)
        laneScale == LaneScaleOf(in)
        lambdaEstimated ==
            IF in.model = "global" THEN RMul(lambdaObserved, laneScale)
            ELSE RDiv(lambdaObserved, in.observed_lanes.v)
        lambdaConservative == RMul(lambdaEstimated, RSub(RInt(1), confidenceBuffer))
        meanInterval == RDiv(RInt(kThreshold), MaxEpsilon(lambdaConservative))
        waitStats == uniformWaitStats(meanInterval)
        optimalWait == OptimalWaitA(meanInterval, probabilityTarget, maxWait)
        probabilityWithinOptimal == probabilityWithinUniform(meanInterval, optimalWait)
        result ==
            [mode |-> "purchase_rate",
             k_threshold_clients |-> kThreshold,
             probability_win_per_attempt |-> RoundTo(Rat(1, kThreshold), 4),
             rates |->
                [purchases_per_minute_observed |-> round(lambdaObserved),
                 purchases_per_minute_estimated |-> round(lambdaEstimated),
                 purchases_per_minute_conservative |-> round(lambdaConservative),
                 lane_scale_factor |-> round(laneScale)],
             wait_estimates_minutes |-> waitStats,
             recommendation |->
                [optimal_wait_minutes |-> round(optimalWait),
                 probability_next_winner_within_optimal_wait |->
                     RoundTo(probabilityWithinOptimal, 4)]]
    IN  Return(withEconomics(result, in.expected_bonus_value,
                             in.time_value_per_minute, probabilityWithinOptimal,
                             meanInterval, maxWait),
               [mode |-> "purchase_rate",
                maxWait |-> maxWait,
                confidenceBuffer |-> confidenceBuffer,
                probabilityTarget |-> probabilityTarget,
                kThreshold |-> kThreshold,
                lambdaObserved |-> lambdaObserved,
                laneScale |-> laneScale,
                lambdaEstimated |-> lambdaEstimated,
                lambdaConservative |-> lambdaConservative,
                meanInterval |-> meanInterval,
                optimalWait |-> optimalWait,
                probabilityWithinOptimal |-> probabilityWithinOptimal])

-----------------------------------------------------------------------------
(* Mode B: timestamps.  A timestamp string is modelled by what the two     *)
(* parsers of the source read in it:                                       *)
(*   fmt = "hms"       it matches HMS_RE, with the numbers h, m, s of its  *)
(*                     groups (s = 0 when the seconds group is missing);   *)
(*                     Date.parse gives NaN for such a string;             *)
(*   fmt = "datetime"  it does not match HMS_RE and Date.parse gives the   *)
(*                     finite value t (milliseconds);                      *)
(*   fmt = "other"     it matches neither: Date.parse gives NaN.           *)

Hms(h, m, s) == [fmt |-> "hms", h |-> h, m |-> m, s |-> s, t |-> 0]

DateTime(t) == [fmt |-> "datetime", h |-> 0, m |-> 0, s |-> 0, t |-> t]

Garbage == [fmt |-> "other", h |-> 0, m |-> 0, s |-> 0, t |-> 0]

\* the null of parseHmsToSeconds and the NaN of Date.parse
NoNumber == -1

\* variant: the range check of hour, minute and second left out
parseHmsToSeconds_noRange(timestamp) ==
    IF timestamp.fmt # "hms" THEN NoNumber
    ELSE timestamp.h * 3600 + timestamp.m * 60 + timestamp.s

parseHmsToSeconds(timestamp) ==
    IF timestamp.fmt # "hms" THEN NoNumber
    ELSE IF \/ timestamp.h < 0 \/ timestamp.h > 23
            \/ timestamp.m < 0 \/ timestamp.m > 59
            \/ timestamp.s < 0 \/ timestamp.s > 59
    THEN NoNumber
    ELSE timestamp.h * 3600 + timestamp.m * 60 + timestamp.s

DateParse(timestamp) ==
    IF timestamp.fmt = "datetime" THEN timestamp.t ELSE NoNumber

\* variant: a single step, taken only when candidate < current
Rollover_once(candidate, current) ==
    IF candidate < current THEN candidate + 24 * 3600 ELSE candidate

\* while (candidate <= current) candidate += 24 * 3600
RECURSIVE Rollover(_, _)
Rollover(candidate, current) ==
    IF candidate <= current THEN Rollover(candidate + 24 * 3600, current)
    ELSE candidate

\* the loop over hmsSeconds: absoluteSeconds after entries 1..i
RECURSIVE AbsoluteSeconds(_, _)
AbsoluteSeconds(hmsSeconds, i) ==
    IF i = 1 THEN <<hmsSeconds[1]>>
    ELSE LET before == AbsoluteSeconds(hmsSeconds, i - 1)
         IN  Append(before, Rollover(hmsSeconds[i], before[i - 1]))

\* the loop of asserts parsed[i] > parsed[i - 1]
DateTimesSorted(parsed) ==
    \A i \in 2..Len(parsed) : parsed[i] > parsed[i - 1]

\* [error, timeline]: the thrown message or "none", and the returned minutes
parseTimestampsToMonotonicMinutes(timestamps) ==
    IF ~(Len(timestamps) >= 2)
    THEN [error |-> "Necesitas al menos 2 timestamps para estimar intervalos.",
          timeline |-> <<>>]
    ELSE
    LET hmsSeconds == [i \in 1..Len(timestamps) |-> parseHmsToSeconds(timestamps[i])]
        allHms == \A i \in 1..Len(timestamps) : hmsSeconds[i] # NoNumber
        absoluteSeconds == AbsoluteSeconds(hmsSeconds, Len(hmsSeconds))
        parsed == [i \in 1..Len(timestamps) |-> DateParse(timestamps[i])]
    IN  IF allHms
        THEN [error |-> "none",
              timeline |-> [i \in 1..Len(timestamps) |-> Rat(absoluteSeconds[i], 60)]]
        ELSE IF ~(\A i \in 1..Len(timestamps) : parsed[i] # NoNumber)
        THEN [error |-> "Formato de timestamp invalido. Usa HH:MM[:SS] o ISO datetime.",
              timeline |-> <<>>]
        ELSE IF ~DateTimesSorted(parsed)
        THEN [error |-> "Los timestamps ISO deben venir ordenados de menor a mayor.",
              timeline |-> <<>>]
        ELSE [error |-> "none",
              timeline |-> [i \in 1..Len(timestamps) |-> Rat(parsed[i], 60000)]]

intervalsFromTimelineMinutes(timelineMinutes) ==
    [i \in 1..(Len(timelineMinutes) - 1) |->
        RSub(timelineMinutes[i + 1], timelineMinutes[i])]

RECURSIVE Sum(_, _)
Sum(values, i) == IF i = 0 THEN RInt(0) ELSE RAdd(Sum(values, i - 1), values[i])

\* mean of a non-empty list
mean(values) == RDiv(Sum(values, Len(values)), RInt(Len(values)))

\* sampleStd(values)^2: the variance whose Math.sqrt sampleStd returns
sampleVariance(values) ==
    IF Len(values) < 2 THEN RInt(0)
    ELSE LET m == mean(values)
             squares == [i \in 1..Len(values) |->
                            RMul(RSub(values[i], m), RSub(values[i], m))]
         IN  RDiv(Sum(squares, Len(values)), RInt(Len(values) - 1))

\* intervalCv < bound, for intervalCv = intervalStd / Math.max(intervalMean,
\* EPSILON), decided on the squares: intervalVariance < bound^2 * max^2.
\* When the maximum is EPSILON the right side is below every positive
\* number the model holds, so only a variance of 0 is below it.
CvBelow(intervalVariance, intervalMean, boundSquared) ==
    IF MaxEpsilon(intervalMean) = EPSILON THEN intervalVariance.n = 0
    ELSE RLt(intervalVariance,
             RMul(boundSquared, RMul(intervalMean, intervalMean)))

\* intervalCv > bound, likewise
CvAbove(intervalVariance, intervalMean, boundSquared) ==
    IF MaxEpsilon(intervalMean) = EPSILON THEN intervalVariance.n > 0
    ELSE RLt(RMul(boundSquared, RMul(intervalMean, intervalMean)),
             intervalVariance)

\* variant: CV = 0.4 counted as regular
CadenceOf_regularAtBoundary(intervalVariance, intervalMean) ==
    IF ~CvAbove(intervalVariance, intervalMean, Rat(16, 100)) THEN "regular"
    ELSE IF CvAbove(intervalVariance, intervalMean, Rat(49, 100)) THEN "random"
    ELSE "mixed"

\* cadenceModel: "mixed" unless intervalCv < 0.4 or intervalCv > 0.7
CadenceOf(intervalVariance, intervalMean) ==
    IF CvBelow(intervalVariance, intervalMean, Rat(16, 100)) THEN "regular"
    ELSE IF CvAbove(intervalVariance, intervalMean, Rat(49, 100)) THEN "random"
    ELSE "mixed"

-----------------------------------------------------------------------------
(* Math.log and Math.exp.  The model has no reals: -Math.log(1 - p) is     *)
(* tabulated to four decimals at the probabilities the model uses, and     *)
(* Math.exp(-x) is its inverse on the tabulated points and elsewhere the   *)
(* Pade approximant (12 - 6x + x^2) / (12 + 6x + x^2) on x cut to two      *)
(* decimals, squaring the value at x / 2 above x = 2; results are kept to  *)
(* four decimals.                                                          *)

\* -Math.log(1 - p)
NegLog1m(p) ==
    CASE p = Rat(1, 2) -> Rat(6931, 10000)
      [] p = Rat(3, 4) -> Rat(13863, 10000)
      [] p = Rat(9, 10) -> Rat(23026, 10000)
      [] p = Rat(99, 100) -> Rat(46052, 10000)

TabulatedP == {Rat(1, 2), Rat(3, 4), Rat(9, 10), Rat(99, 100)}

\* Math.exp(-q / 100) in units of 1/10000, for an integer q >= 0
RECURSIVE ExpNegHundredths(_)
ExpNegHundredths(q) ==
    IF q <= 200
    THEN RoundTo(Rat(120000 - 600 * q + q * q, 120000 + 600 * q + q * q), 4)
    ELSE LET half == ExpNegHundredths(q \div 2)
         IN  (half * half) \div 10000

\* Math.exp(-x) for x >= 0
ExpNeg(x) ==
    IF \E p \in TabulatedP : NegLog1m(p) = x
    THEN RSub(RInt(1), CHOOSE p \in TabulatedP : NegLog1m(p) = x)
    ELSE Rat(ExpNegHundredths((x.n \div x.d) * 100
                              + LongDiv(x.n % x.d, x.d, 2)[1]), 10000)

expWaitStats(meanIntervalMinutes) ==
    LET m == MaxEpsilon(meanIntervalMinutes)
    IN  [mean_interval_between_winners |-> round(m),
         expected_wait_to_next_winner |-> round(m),
         p50_wait_to_next_winner |-> round(RMul(m, NegLog1m(Rat(1, 2)))),
         p75_wait_to_next_winner |-> round(RMul(m, NegLog1m(Rat(3, 4)))),
         p90_wait_to_next_winner |-> round(RMul(m, NegLog1m(Rat(9, 10))))]

probabilityWithinExponential(meanInterval, wait) ==
    IF meanInterval.n <= 0 THEN RInt(1)
    ELSE RSub(RInt(1), ExpNeg(RDiv(wait, meanInterval)))

-----------------------------------------------------------------------------
(* Mode B: runWinnerTimestampsMode.  winner_timestamps is the list of      *)
(* entries; a field that is missing or no array is the empty list, which   *)
(* fails the same assert.                                                  *)

Half(a, b) == RDiv(RAdd(a, b), RInt(2))

\* variant: the lower clamp only, max_wait not applied
OptimalWaitB_noCeiling(cadenceModel, regularRemaining, randomWaitForTarget, maxWait) ==
    RMax(RInt(0),
         IF cadenceModel = "random" THEN randomWaitForTarget
         ELSE IF cadenceModel = "mixed" THEN Half(regularRemaining, randomWaitForTarget)
         ELSE regularRemaining)

OptimalWaitB(cadenceModel, regularRemaining, randomWaitForTarget, maxWait) ==
    clamp(IF cadenceModel = "random" THEN randomWaitForTarget
          ELSE IF cadenceModel = "mixed" THEN Half(regularRemaining, randomWaitForTarget)
          ELSE regularRemaining,
          RInt(0), maxWait)

\* variant: the quotient also when nothing remains
RegularProbabilityOf_noZeroCase(regularRemaining, optimalWait) ==
    clamp(RDiv(optimalWait, MaxEpsilon(regularRemaining)), RInt(0), RInt(1))

\* regularRemaining <= EPSILON ? 1
\*   : clamp(optimalWait / Math.max(regularRemaining, EPSILON), 0, 1)
RegularProbabilityOf(regularRemaining, optimalWait) ==
    IF RLe(regularRemaining, EPSILON) THEN RInt(1)
    ELSE clamp(RDiv(optimalWait, MaxEpsilon(regularRemaining)), RInt(0), RInt(1))

runWinnerTimestampsMode(in) ==
    IF ~(Len(in.winner_timestamps) >= 2)
    THEN Throw("winner_timestamps debe tener al menos 2 elementos en mode=winner_timestamps.")
    ELSE
    LET maxWait == MaxWaitOf(in)
        probabilityTarget == ProbabilityTargetOf(in)
        elapsed == RMax(OrDefault(in.elapsed_since_last_winner_minutes, RInt(0)), RInt(0))
        parse == parseTimestampsToMonotonicMinutes(in.winner_timestamps)
        timeline == parse.timeline
        intervals == intervalsFromTimelineMinutes(timeline)
        intervalMean == mean(intervals)
        intervalVariance == sampleVariance(intervals)
        cadenceModel == CadenceOf(intervalVariance, intervalMean)
        regularRemaining == RMax(RSub(intervalMean, elapsed), RInt(0))
        randomExpectedRemaining == intervalMean
        waitStatsRegular ==
            [mean_interval_between_winners |-> round(intervalMean),
             expected_wait_to_next_winner |-> round(regularRemaining),
             p50_wait_to_next_winner |-> round(regularRemaining),
             p75_wait_to_next_winner |-> round(regularRemaining),
             p90_wait_to_next_winner |-> round(regularRemaining)]
        waitStatsRandom == expWaitStats(intervalMean)
        waitStats ==
            IF cadenceModel = "random" THEN waitStatsRandom
            ELSE IF cadenceModel = "mixed"
            THEN [mean_interval_between_winners |-> round(intervalMean),
                  expected_wait_to_next_winner |->
                      round(Half(Rat(waitStatsRegular.expected_wait_to_next_winner, 100),
                                 randomExpectedRemaining)),
                  p50_wait_to_next_winner |->
                      round(Half(Rat(waitStatsRegular.p50_wait_to_next_winner, 100),
                                 Rat(waitStatsRandom.p50_wait_to_next_winner, 100))),
                  p75_wait_to_next_winner |->
                      round(Half(Rat(waitStatsRegular.p75_wait_to_next_winner, 100),
                                 Rat(waitStatsRandom.p75_wait_to_next_winner, 100))),
                  p90_wait_to_next_winner |->
                      round(Half(Rat(waitStatsRegular.p90_wait_to_next_winner, 100),
                                 Rat(waitStatsRandom.p90_wait_to_next_winner, 100)))]
            ELSE waitStatsRegular
        randomWaitForTarget == RMul(intervalMean, NegLog1m(probabilityTarget))
        optimalWait ==
            OptimalWaitB(cadenceModel, regularRemaining, randomWaitForTarget, maxWait)
        regularProbability == RegularProbabilityOf(regularRemaining, optimalWait)
        randomProbability == probabilityWithinExponential(intervalMean, optimalWait)
        probabilityWithinOptimal ==
            IF cadenceModel = "random" THEN randomProbability
            ELSE IF cadenceModel = "mixed" THEN Half(regularProbability, randomProbability)
            ELSE regularProbability
        result ==
            [mode |-> "winner_timestamps",
             cadence_analysis |->
                [intervals_minutes |-> [i \in 1..Len(intervals) |-> round(intervals[i])],
                 interval_mean_minutes |-> round(intervalMean),
                 cadence_model |-> cadenceModel],
             wait_estimates_minutes |-> waitStats,
             recommendation |->
                [optimal_wait_minutes |-> round(optimalWait),
                 probability_next_winner_within_optimal_wait |->
                     RoundTo(probabilityWithinOptimal, 4)]]
        withK ==
            IF in.is_weekend_or_holiday \in {"true", "false"}
            THEN LET kThreshold == thresholdFromDay(in.is_weekend_or_holiday = "true")
                 IN  result @@ [k_threshold_clients |-> kThreshold,
                                probability_win_per_attempt |->
                                    RoundTo(Rat(1, kThreshold), 4)]
            ELSE result
    IN  IF parse.error # "none" THEN Throw(parse.error)
        ELSE Return(withEconomics(withK, in.expected_bonus_value,
                                  in.time_value_per_minute, probabilityWithinOptimal,
                                  intervalMean, maxWait),
                    [mode |-> "winner_timestamps",
                     maxWait |-> maxWait,
                     probabilityTarget |-> probabilityTarget,
                     elapsed |-> elapsed,
                     timeline |-> timeline,
                     intervals |-> intervals,
                     intervalMean |-> intervalMean,
                     intervalVariance |-> intervalVariance,
                     cadenceModel |-> cadenceModel,
                     regularRemaining |-> regularRemaining,
                     randomWaitForTarget |-> randomWaitForTarget,
                     optimalWait |-> optimalWait,
                     regularProbability |-> regularProbability,
                     randomProbability |-> randomProbability,
                     probabilityWithinOptimal |-> probabilityWithinOptimal])

-----------------------------------------------------------------------------------------------------------------------------------------------------
(* run: the dispatch on inputs.mode.                                       *)

run(in) ==
    IF in.mode = "purchase_rate" THEN runPurchaseRateMode(in)
    ELSE IF in.mode = "winner_timestamps" THEN runWinnerTimestampsMode(in)
    ELSE Throw("mode invalido")

-----------------------------------------------------------------------------
(* The input objects the model calls run with.                             *)

MaxTimestamps == 4

\* an Inputs object with only mode set
Blank(mode) ==
    [mode |-> mode,
     is_weekend_or_holiday |-> "undefined",
     model |-> "undefined",
     observed_purchases |-> Undefined,
     observed_minutes |-> Undefined,
     observed_lanes |-> Undefined,
     total_open_lanes |-> Undefined,
     winner_timestamps |-> <<>>,
     elapsed_since_last_winner_minutes |-> Undefined,
     target_hit_probability |-> Undefined,
     confidence_buffer |-> Undefined,
     max_wait_minutes |-> Undefined,
     time_value_per_minute |-> Undefined,
     expected_bonus_value |-> Undefined]

Booleans == {"true", "false"}

Targets == {Undefined, Num(Rat(3, 10)), Num(Rat(9, 10)), Num(RInt(1))}

MaxWaits == {Undefined, Num(RInt(0)), Num(RInt(5)), Num(Rat(2503, 500))}

Money == {Undefined, Null, Num(RInt(-1)), Num(RInt(0)), Num(RInt(100))}

\* valid purchase_rate inputs, without the economics fields
PurchaseRateInputs ==
    { [Blank("purchase_rate") EXCEPT
          !.is_weekend_or_holiday = w, !.model = mo,
          !.observed_purchases = Num(RInt(p)), !.observed_minutes = Num(RInt(2)),
          !.observed_lanes = Num(RInt(l)), !.total_open_lanes = tl,
          !.confidence_buffer = b, !.target_hit_probability = t,
          !.max_wait_minutes = mw] :
        w \in Booleans, mo \in {"global", "per_lane"}, p \in {1, 5, 30},
        l \in {1, 5},
        tl \in {Undefined, Null, Num(RInt(3)), Num(RInt(15))},
        b \in {Undefined, Num(RInt(0)), Num(Rat(19, 20))},
        t \in Targets, mw \in MaxWaits }

\* Scenario 1 of the README and its neighbours, with the economics fields
PurchaseRateEconomicsInputs ==
    { [Blank("purchase_rate") EXCEPT
          !.is_weekend_or_holiday = "true", !.model = "global",
          !.observed_purchases = Num(RInt(p)), !.observed_minutes = Num(RInt(2)),
          !.observed_lanes = Num(RInt(5)), !.total_open_lanes = Num(RInt(15)),
          !.confidence_buffer = Num(Rat(1, 5)),
          !.target_hit_probability = Num(Rat(3, 4)),
          !.max_wait_minutes = mw,
          !.expected_bonus_value = bonus, !.time_value_per_minute = tv] :
        p \in {5, 30}, mw \in {Num(RInt(30)), Num(RInt(5))},
        bonus \in Money, tv \in Money }

\* inputs that break the constraints of run and of runPurchaseRateMode
ConstraintInputs ==
    { [Blank(md) EXCEPT
          !.is_weekend_or_holiday = w, !.model = mo,
          !.observed_purchases = p, !.observed_minutes = mi, !.observed_lanes = l] :
        md \in {"purchase_rate", "other"},
        w \in {"true", "undefined"}, mo \in {"global", "per_lane", "other"},
        p \in {Undefined, Null, Num(RInt(0)), Num(RInt(-1)), Num(RInt(5))},
        mi \in {Undefined, Num(RInt(0)), Num(RInt(2))},
        l \in {Undefined, Num(RInt(0)), Num(RInt(5))} }

RECURSIVE SeqsOf(_, _)
SeqsOf(S, n) ==
    IF n = 0 THEN {<<>>}
    ELSE {Append(q, x) : q \in SeqsOf(S, n - 1), x \in S}

SeqsUpTo(S, n) == UNION {SeqsOf(S, k) : k \in 0..n}

\* bare times around midnight; in this order their intervals are 7, 5, 3
BareTimes == {Hms(23, 58, 0), Hms(0, 5, 0), Hms(0, 10, 0), Hms(0, 13, 0)}

BareTimeInputs ==
    { [Blank("winner_timestamps") EXCEPT
          !.winner_timestamps = ts, !.elapsed_since_last_winner_minutes = e,
          !.max_wait_minutes = mw] :
        ts \in SeqsUpTo(BareTimes, MaxTimestamps),
        e \in {Undefined, Num(RInt(6))},
        mw \in {Undefined, Num(Rat(2503, 500))} }

\* lists on and around the two thresholds of the coefficient of variation:
\* intervals 7, 5, 3 (CV = 0.4), 3, 10, 17 (CV = 0.7), 5, 5, 5 (CV = 0),
\* 8, 5, 3 (0.4 < CV < 0.7) and 5, 30 (CV > 0.7)
CadenceLists ==
    {<<Hms(23, 58, 0), Hms(0, 5, 0), Hms(0, 10, 0), Hms(0, 13, 0)>>,
     <<Hms(0, 10, 0), Hms(0, 13, 0), Hms(0, 23, 0), Hms(0, 40, 0)>>,
     <<Hms(0, 0, 0), Hms(0, 5, 0), Hms(0, 10, 0), Hms(0, 15, 0)>>,
     <<Hms(23, 57, 0), Hms(0, 5, 0), Hms(0, 10, 0), Hms(0, 13, 0)>>,
     <<Hms(0, 5, 0), Hms(0, 10, 0), Hms(0, 40, 0)>>}

CadenceInputs ==
    { [Blank("winner_timestamps") EXCEPT
          !.winner_timestamps = ts, !.elapsed_since_last_winner_minutes = e,
          !.target_hit_probability = t, !.max_wait_minutes = mw] :
        ts \in CadenceLists,
        e \in {Undefined, Num(RInt(2)), Num(RInt(20))},
        t \in Targets, mw \in MaxWaits }

\* Scenario 2 of the README
Scenario2 == <<Hms(12, 10, 15), Hms(12, 27, 40), Hms(12, 46, 5), Hms(13, 2, 20)>>

Scenario2Inputs ==
    { [Blank("winner_timestamps") EXCEPT
          !.winner_timestamps = Scenario2, !.is_weekend_or_holiday = w,
          !.elapsed_since_last_winner_minutes = e,
          !.target_hit_probability = t, !.max_wait_minutes = mw,
          !.expected_bonus_value = bonus, !.time_value_per_minute = tv] :
        w \in {"undefined", "true", "false"},
        e \in {Undefined, Num(RInt(-3)), Num(RInt(6)), Num(RInt(20))},
        t \in {Undefined, Num(Rat(9, 10))}, mw \in {Undefined, Num(RInt(5))},
        bonus \in {Undefined, Num(RInt(-1)), Num(RInt(100))},
        tv \in {Null, Num(RInt(0)), Num(RInt(2))} }

\* bare times, a time HMS_RE matches with an hour out of range, date-times
\* and a string neither parser reads
AnyFormat ==
    {Hms(23, 58, 0), Hms(0, 5, 0), Hms(24, 0, 0), DateTime(0), DateTime(420000),
     DateTime(1020000), Garbage}

FormatInputs ==
    { [Blank("winner_timestamps") EXCEPT
          !.winner_timestamps = ts, !.target_hit_probability = t] :
        ts \in SeqsOf(AnyFormat, 2) \cup SeqsOf(AnyFormat, 3),
        t \in {Undefined, Num(Rat(3, 10))} }

InputSpace ==
    PurchaseRateInputs \cup PurchaseRateEconomicsInputs \cup ConstraintInputs
        \cup BareTimeInputs \cup CadenceInputs \cup Scenario2Inputs \cup FormatInputs

-----------------------------------------------------------------------------
(* The state machine: one call of run per behaviour.                       *)

Init ==
    /\ inputs \in InputSpace
    /\ pc = "called"
    /\ error = "none"
    /\ output = NoOutput
    /\ locals = NoLocals

\* the effect of a callee that ended with result
Finish(result) ==
    /\ pc' = IF result.error = "none" THEN "returned" ELSE "thrown"
    /\ error' = result.error
    /\ output' = result.out
    /\ locals' = result.loc
    /\ UNCHANGED inputs

RunPurchaseRate ==
    /\ pc = "called"
    /\ inputs.mode = "purchase_rate"
    /\ Finish(runPurchaseRateMode(inputs))

RunWinnerTimestamps ==
    /\ pc = "called"
    /\ inputs.mode = "winner_timestamps"
    /\ Finish(runWinnerTimestampsMode(inputs))

RunInvalidMode ==
    /\ pc = "called"
    /\ inputs.mode \notin {"purchase_rate", "winner_timestamps"}
    /\ Finish(Throw("mode invalido"))

Next == RunPurchaseRate \/ RunWinnerTimestamps \/ RunInvalidMode

Spec == Init /\ [][Next]_vars

-----------------------------------------------------------------------------
(* Properties.  Returned and Thrown say how the call ended; the helpers    *)
(* below restate, from the input object alone, the quantities the claims   *)
(* speak of.                                                               *)

Returned == pc = "returned"

Thrown == pc = "thrown"

\* max_wait_minutes floored at 1, default 30
EffectiveMaxWait ==
    IF inputs.max_wait_minutes.tag = "number"
    THEN (IF RLt(inputs.max_wait_minutes.v, RInt(1)) THEN RInt(1)
          ELSE inputs.max_wait_minutes.v)
    ELSE RInt(30)

\* target_hit_probability clamped to [0.5, 0.99], default 0.75
EffectiveTarget ==
    IF inputs.target_hit_probability.tag = "number"
    THEN (IF RLt(inputs.target_hit_probability.v, Rat(1, 2)) THEN Rat(1, 2)
          ELSE IF RLt(Rat(99, 100), inputs.target_hit_probability.v) THEN Rat(99, 100)
          ELSE inputs.target_hit_probability.v)
    ELSE Rat(3, 4)

LowerBound == IF output.mode = "purchase_rate" THEN 1 ELSE 0

WaitEstimatesNonNegative ==
    /\ output.wait_estimates_minutes.mean_interval_between_winners >= 0
    /\ output.wait_estimates_minutes.expected_wait_to_next_winner >= 0
    /\ output.wait_estimates_minutes.p50_wait_to_next_winner >= 0
    /\ output.wait_estimates_minutes.p75_wait_to_next_winner >= 0
    /\ output.wait_estimates_minutes.p90_wait_to_next_winner >= 0

C2_ThresholdFromDayOnly ==
    (Returned /\ inputs.mode = "purchase_rate") =>
        /\ inputs.is_weekend_or_holiday = "true" =>
              /\ output.k_threshold_clients = 50
              /\ output.probability_win_per_attempt = 200
        /\ inputs.is_weekend_or_holiday = "false" =>
              /\ output.k_threshold_clients = 25
              /\ output.probability_win_per_attempt = 400
        /\ output.probability_win_per_attempt * output.k_threshold_clients = 10000

\* a weekday per_lane call with a non-default target and buffer
C2_Witness ==
    /\ Returned
    /\ inputs.mode = "purchase_rate"
    /\ inputs.is_weekend_or_holiday = "false"
    /\ inputs.model = "per_lane"
    /\ inputs.confidence_buffer.tag = "number"
    /\ inputs.target_hit_probability.tag = "number"
    /\ output.k_threshold_clients = 25
    /\ output.probability_win_per_attempt = 400

\* 0.4 and 0.7 against CV, as CV^2 * mean^2 = variance against their squares
CvBelow04 ==
    RLt(RMul(RInt(25), locals.intervalVariance),
        RMul(RInt(4), RMul(locals.intervalMean, locals.intervalMean)))

CvAbove07 ==
    RLt(RMul(RInt(49), RMul(locals.intervalMean, locals.intervalMean)),
        RMul(RInt(100), locals.intervalVariance))

\* C3: in winner_timestamps mode cadence_model is a step function of the
\* coefficient of variation of the intervals alone: regular below 0.4, random
\* above 0.7, mixed from 0.4 to 0.7 with both ends included.
C3_CadenceStepFunction ==
    (Returned /\ inputs.mode = "winner_timestamps") =>
        output.cadence_analysis.cadence_model =
              (IF CvBelow04 THEN "regular"
               ELSE IF CvAbove07 THEN "random"
               ELSE "mixed")

\* a list whose CV is exactly 0.4 (variance 4, mean 5), classified mixed,
\* in a call with elapsed, target and max wait all given
C3_Witness ==
    /\ Returned
    /\ inputs.mode = "winner_timestamps"
    /\ locals.intervalVariance = RInt(4)
    /\ locals.intervalMean = RInt(5)
    /\ output.cadence_analysis.cadence_model = "mixed"
    /\ inputs.elapsed_since_last_winner_minutes.tag = "number"
    /\ inputs.target_hit_probability.tag = "number"
    /\ inputs.max_wait_minutes.tag = "number"

\* expected_bonus_value and time_value_per_minute are both numbers >= 0
BothMoneySupplied ==
    /\ inputs.expected_bonus_value.tag = "number"
    /\ inputs.expected_bonus_value.v.n >= 0
    /\ inputs.time_value_per_minute.tag = "number"
    /\ inputs.time_value_per_minute.v.n >= 0

WithoutMoney ==
    [inputs EXCEPT !.expected_bonus_value = Undefined,
                   !.time_value_per_minute = Undefined]

\* C4: in both modes the output has an economics block if and only if
\* expected_bonus_value and time_value_per_minute are both numbers >= 0, and
\* every other field of the output is what the call yields without them.
C4_EconomicsIffBothSupplied ==
    Returned =>
        /\ ("economics" \in DOMAIN output) <=> BothMoneySupplied
        /\ [f \in DOMAIN output \ {"economics"} |-> output[f]] = run(WithoutMoney).out

\* a call with a bonus of 0 and a time value of 0, which has the block
C4_Witness ==
    /\ Returned
    /\ inputs.expected_bonus_value = Num(RInt(0))
    /\ inputs.time_value_per_minute = Num(RInt(0))
    /\ "economics" \in DOMAIN output
    /\ output.economics.break_even_wait_minutes = round(EffectiveMaxWait)

\* the entry is a bare HH:MM[:SS] time of day
IsBareTime(entry) ==
    /\ entry.fmt = "hms"
    /\ entry.h \in 0..23
    /\ entry.m \in 0..59
    /\ entry.s \in 0..59

AllBareTimes ==
    \A i \in 1..Len(inputs.winner_timestamps) : IsBareTime(inputs.winner_timestamps[i])

\* C5: when every entry is a bare time, the call's timeline has the length
\* of the list and is strictly increasing, so every interval is > 0, also
\* where an entry is not later in the day than its predecessor; 23:58
\* followed by 00:05 is an interval of 7 minutes.
C5_BareTimelineIncreasing ==
    (inputs.mode = "winner_timestamps" /\ pc # "called"
        /\ Len(inputs.winner_timestamps) >= 2 /\ AllBareTimes) =>
        /\ Returned
        /\ Len(locals.timeline) = Len(inputs.winner_timestamps)
        /\ \A i \in 2..Len(locals.timeline) :
              RLt(locals.timeline[i - 1], locals.timeline[i])
        /\ Len(locals.intervals) = Len(locals.timeline) - 1
        /\ \A i \in 1..Len(locals.intervals) :
              /\ locals.intervals[i].n > 0
              /\ (/\ inputs.winner_timestamps[i] = Hms(23, 58, 0)
                  /\ inputs.winner_timestamps[i + 1] = Hms(0, 5, 0))
                 => /\ locals.intervals[i] = RInt(7)
                    /\ output.cadence_analysis.intervals_minutes[i] = 700

\* 23:58 then 00:05 then 00:05 again: an earlier and an equal time of day
C5_Witness ==
    /\ Returned
    /\ Len(inputs.winner_timestamps) = 3
    /\ inputs.winner_timestamps[1] = Hms(23, 58, 0)
    /\ inputs.winner_timestamps[2] = Hms(0, 5, 0)
    /\ inputs.winner_timestamps[3] = Hms(0, 5, 0)
    /\ locals.intervals = <<RInt(7), RInt(1440)>>

AllDateTimesIncreasing ==
    /\ \A i \in 1..Len(inputs.winner_timestamps) :
          inputs.winner_timestamps[i].fmt = "datetime"
    /\ \A i \in 2..Len(inputs.winner_timestamps) :
          inputs.winner_timestamps[i - 1].t < inputs.winner_timestamps[i].t

\* C6: in winner_timestamps mode, a list of at least two entries of which
\* one is no bare time fails unless every entry is a date-time and the
\* date-times are strictly increasing; so a bare time mixed with a
\* date-time fails, and so does a date-time not after its predecessor.
C6_NonBareNeedsOrderedDateTimes ==
    (inputs.mode = "winner_timestamps" /\ pc # "called"
        /\ Len(inputs.winner_timestamps) >= 2 /\ ~AllBareTimes) =>
        /\ Thrown <=> ~AllDateTimesIncreasing
        /\ Thrown => output.mode = "none"

\* a bare time followed by a date-time: rejected
C6_Witness ==
    /\ Thrown
    /\ Len(inputs.winner_timestamps) = 2
    /\ IsBareTime(inputs.winner_timestamps[1])
    /\ inputs.winner_timestamps[2].fmt = "datetime"
    /\ error = "Formato de timestamp invalido. Usa HH:MM[:SS] o ISO datetime."

Positive(x) == x.tag = "number" /\ x.v.n > 0

\* the first constraint of its mode that the input violates, "none" if none
FirstViolated ==
    IF inputs.mode \notin {"purchase_rate", "winner_timestamps"} THEN "mode"
    ELSE IF inputs.mode = "winner_timestamps"
    THEN (IF Len(inputs.winner_timestamps) < 2 THEN "winner_timestamps" ELSE "none")
    ELSE IF inputs.is_weekend_or_holiday \notin {"true", "false"}
    THEN "is_weekend_or_holiday"
    ELSE IF inputs.model \notin {"global", "per_lane"} THEN "model"
    ELSE IF ~Positive(inputs.observed_purchases) THEN "observed_purchases"
    ELSE IF ~Positive(inputs.observed_minutes) THEN "observed_minutes"
    ELSE IF ~Positive(inputs.observed_lanes) THEN "observed_lanes"
    ELSE "none"

\* the constraint an error message names
ConstraintOf(message) ==
    CASE message = "mode invalido" -> "mode"
      [] message = "winner_timestamps debe tener al menos 2 elementos en mode=winner_timestamps."
            -> "winner_timestamps"
      [] message = "is_weekend_or_holiday es obligatorio en mode=purchase_rate."
            -> "is_weekend_or_holiday"
      [] message = "model invalido." -> "model"
      [] message = "observed_purchases debe ser > 0." -> "observed_purchases"
      [] message = "observed_minutes debe ser > 0." -> "observed_minutes"
      [] message = "observed_lanes debe ser > 0." -> "observed_lanes"
      [] OTHER -> "timestamp format"

\* C7: an input that violates a constraint of its mode makes run fail with
\* an error and no output, and the error is the one of the first violated
\* constraint.
C7_FirstViolatedConstraint ==
    (pc # "called" /\ FirstViolated # "none") =>
        /\ Thrown
        /\ output.mode = "none"
        /\ locals.mode = "none"
        /\ ConstraintOf(error) = FirstViolated

\* a purchase_rate input with a valid day flag, an invalid model and three
\* invalid observations: the error is the model's
C7_Witness ==
    /\ Thrown
    /\ inputs.mode = "purchase_rate"
    /\ inputs.is_weekend_or_holiday = "true"
    /\ inputs.model = "other"
    /\ ~Positive(inputs.observed_purchases)
    /\ ~Positive(inputs.observed_minutes)
    /\ ~Positive(inputs.observed_lanes)
    /\ error = "model invalido."

\* T * target for the call's mean interval T
WaitForTarget == RMul(locals.meanInterval, EffectiveTarget)

C10_CutoffIsMinOfMaxWaitAndTarget ==
    (Returned /\ inputs.mode = "purchase_rate") =>
        /\ locals.optimalWait =
              (IF RLt(WaitForTarget, EffectiveMaxWait) THEN WaitForTarget
               ELSE EffectiveMaxWait)
        /\ output.recommendation.optimal_wait_minutes = round(locals.optimalWait)

\* the quantities of C11, from the input object alone
ExpectedLaneScale ==
    IF /\ inputs.model = "global"
       /\ inputs.total_open_lanes.tag = "number"
       /\ ~RLt(inputs.total_open_lanes.v, inputs.observed_lanes.v)
    THEN RDiv(inputs.total_open_lanes.v, inputs.observed_lanes.v)
    ELSE RInt(1)

ExpectedLambdaObserved == RDiv(inputs.observed_purchases.v, inputs.observed_minutes.v)

ExpectedLambdaEstimated ==
    IF inputs.model = "global" THEN RMul(ExpectedLambdaObserved, ExpectedLaneScale)
    ELSE RDiv(ExpectedLambdaObserved, inputs.observed_lanes.v)

\* confidence_buffer clamped to [0, 0.9], default 0.2
EffectiveBuffer ==
    IF inputs.confidence_buffer.tag = "number"
    THEN (IF inputs.confidence_buffer.v.n < 0 THEN RInt(0)
          ELSE IF RLt(Rat(9, 10), inputs.confidence_buffer.v) THEN Rat(9, 10)
          ELSE inputs.confidence_buffer.v)
    ELSE Rat(1, 5)

ExpectedLambdaConservative ==
    RMul(ExpectedLambdaEstimated, RSub(RInt(1), EffectiveBuffer))

ExpectedK == IF inputs.is_weekend_or_holiday = "true" THEN 50 ELSE 25

EffectiveElapsed ==
    IF inputs.elapsed_since_last_winner_minutes.tag = "number"
    THEN RMax(inputs.elapsed_since_last_winner_minutes.v, RInt(0))
    ELSE RInt(0)

RegularCadence ==
    Returned /\ inputs.mode = "winner_timestamps" /\ locals.cadenceModel = "regular"

\* the regular-cadence rule of C12 for a remaining time
RegularRule(remaining) ==
    /\ locals.optimalWait = RMin(remaining, EffectiveMaxWait)
    /\ output.recommendation.optimal_wait_minutes = round(RMin(remaining, EffectiveMaxWait))
    /\ RLe(remaining, EffectiveMaxWait) =>
          /\ locals.probabilityWithinOptimal = RInt(1)
          /\ output.recommendation.probability_next_winner_within_optimal_wait = 10000
    /\ RLt(EffectiveMaxWait, remaining) =>
          /\ locals.probabilityWithinOptimal = RDiv(EffectiveMaxWait, remaining)
          /\ output.recommendation.probability_next_winner_within_optimal_wait =
                RoundTo(RDiv(EffectiveMaxWait, remaining), 4)

C12_NothingRemains ==
    /\ RegularCadence
    /\ locals.regularRemaining = RInt(0)
    /\ output.recommendation.optimal_wait_minutes = 0
    /\ output.recommendation.probability_next_winner_within_optimal_wait = 10000

C12_CeilingBinds ==
    /\ RegularCadence
    /\ inputs.winner_timestamps = Scenario2
    /\ inputs.max_wait_minutes = Num(RInt(5))
    /\ inputs.elapsed_since_last_winner_minutes = Num(RInt(6))
    /\ output.recommendation.optimal_wait_minutes = 500
    /\ output.recommendation.probability_next_winner_within_optimal_wait = 4401

C12_NegativeElapsed ==
    /\ RegularCadence
    /\ inputs.winner_timestamps = Scenario2
    /\ inputs.elapsed_since_last_winner_minutes = Num(RInt(-3))
    /\ inputs.max_wait_minutes = Undefined
    /\ output.recommendation.optimal_wait_minutes = 1736

-----------------------------------------------------------------------------
(* The midnight-rollover loop of parseTimestampsToMonotonicMinutes, step by *)
(* step: pc is the position in the loop, locals its variables. steps[i]     *)
(* counts the executions of the while body for entry i (a history variable, *)
(* not in the code); i is the code's 0-based index, sequences are 1-based.  *)

\* bare times at both ends of the day, so that equal and decreasing
\* neighbours occur
LoopTimes == {Hms(0, 0, 0), Hms(0, 5, 0), Hms(12, 0, 0), Hms(23, 59, 59)}

LoopInputs ==
    { [Blank("winner_timestamps") EXCEPT !.winner_timestamps = ts] :
        ts \in {q \in SeqsUpTo(LoopTimes, MaxTimestamps) : Len(q) >= 2} }

\* hmsSeconds, allHms true; current = hmsSeconds[0]; absoluteSeconds.push(current);
\* i = 1
RolloverInit ==
    /\ inputs \in LoopInputs
    /\ pc = "for"
    /\ error = "none"
    /\ output = NoOutput
    /\ locals =
          LET hmsSeconds == [k \in 1..Len(inputs.winner_timestamps) |->
                                parseHmsToSeconds(inputs.winner_timestamps[k])]
          IN  [hmsSeconds |-> hmsSeconds,
               i |-> 1,
               candidate |-> NoNumber,
               current |-> hmsSeconds[1],
               absoluteSeconds |-> <<hmsSeconds[1]>>,
               steps |-> <<>>,
               timeline |-> <<>>]

\* i < hmsSeconds.length: let candidate = hmsSeconds[i]
ForBody ==
    /\ pc = "for"
    /\ locals.i < Len(locals.hmsSeconds)
    /\ locals' = [locals EXCEPT !.candidate = locals.hmsSeconds[locals.i + 1],
                                !.steps = Append(locals.steps, 0)]
    /\ pc' = "while"
    /\ UNCHANGED <<inputs, error, output>>

\* variant: the candidate advances by one hour
WhileBody_hour ==
    /\ pc = "while"
    /\ locals.candidate <= locals.current
    /\ locals' = [locals EXCEPT !.candidate = locals.candidate + 3600,
                                !.steps[locals.i] = locals.steps[locals.i] + 1]
    /\ UNCHANGED <<inputs, pc, error, output>>

\* candidate <= current: candidate += 24 * 3600
WhileBody ==
    /\ pc = "while"
    /\ locals.candidate <= locals.current
    /\ locals' = [locals EXCEPT !.candidate = locals.candidate + 24 * 3600,
                                !.steps[locals.i] = locals.steps[locals.i] + 1]
    /\ UNCHANGED <<inputs, pc, error, output>>

\* candidate > current: absoluteSeconds.push(candidate); current = candidate;
\* i += 1
WhileExit ==
    /\ pc = "while"
    /\ ~(locals.candidate <= locals.current)
    /\ locals' = [locals EXCEPT
                     !.absoluteSeconds = Append(locals.absoluteSeconds, locals.candidate),
                     !.current = locals.candidate,
                     !.i = locals.i + 1]
    /\ pc' = "for"
    /\ UNCHANGED <<inputs, error, output>>

\* i = hmsSeconds.length: return absoluteSeconds.map((seconds) => seconds / 60)
ForExit ==
    /\ pc = "for"
    /\ ~(locals.i < Len(locals.hmsSeconds))
    /\ locals' = [locals EXCEPT
                     !.timeline = [k \in 1..Len(locals.absoluteSeconds) |->
                                      Rat(locals.absoluteSeconds[k], 60)]]
    /\ pc' = "parsed"
    /\ UNCHANGED <<inputs, error, output>>

RolloverNext == ForBody \/ WhileBody \/ WhileExit \/ ForExit

\* the loop is synchronous code on one thread: a step that can be taken is taken
RolloverSpec == RolloverInit /\ [][RolloverNext]_vars /\ WF_vars(RolloverNext)

Parsed == pc = "parsed"

\* entry i (the code's index, i >= 1) took at most i steps of 24 hours
StepsAtMostIndex ==
    \A i \in 1..Len(locals.steps) : locals.steps[i] <= i

\* every entry already pushed is its time of day plus its whole 24-hour
\* steps, and the first such value above the previous timeline value
FirstAbovePrevious ==
    \A i \in 1..(Len(locals.absoluteSeconds) - 1) :
        /\ locals.absoluteSeconds[i + 1] =
              locals.hmsSeconds[i + 1] + locals.steps[i] * (24 * 3600)
        /\ locals.absoluteSeconds[i + 1] > locals.absoluteSeconds[i]
        /\ locals.steps[i] > 0 =>
              locals.absoluteSeconds[i + 1] - 24 * 3600 <= locals.absoluteSeconds[i]

\* the intervals of the returned timeline, in (0, 1440] minutes; the timeline
\* is the one parseTimestampsToMonotonicMinutes returns
IntervalsWithinOneDay ==
    Parsed =>
        /\ locals.timeline =
              parseTimestampsToMonotonicMinutes(inputs.winner_timestamps).timeline
        /\ Len(locals.timeline) = Len(inputs.winner_timestamps)
        /\ LET intervals == intervalsFromTimelineMinutes(locals.timeline)
           IN  \A k \in 1..Len(intervals) :
                  RLt(RInt(0), intervals[k]) /\ RLe(intervals[k], RInt(1440))

\* C13: for every finite list of bare HH:MM[:SS] timestamps the
\* midnight-rollover loop terminates: each entry is advanced by whole 24-hour
\* steps only until it first exceeds the previous timeline value, the number
\* of steps for entry i is at most i, and every resulting interval is greater
\* than 0 and at most 1440 minutes.
C13_RolloverTerminates ==
    /\ [](StepsAtMostIndex /\ FirstAbovePrevious /\ IntervalsWithinOneDay)
    /\ <>Parsed

\* 23:59:59, 12:00:00, 00:05:00, 00:05:00: the entries take 1, 2 and 3 steps,
\* and the last interval is a whole day
C13_Witness ==
    /\ Parsed
    /\ inputs.winner_timestamps =
          <<Hms(23, 59, 59), Hms(12, 0, 0), Hms(0, 5, 0), Hms(0, 5, 0)>>
    /\ locals.steps = <<1, 2, 3>>
    /\ intervalsFromTimelineMinutes(locals.timeline)[3] = RInt(1440)

=============================================================================
